---- MODULE Spec2Model ----
(***************************************************************************)
(* The LiME container layer of volatility/framework/layers/lime.py:        *)
(* LimeLayer._check_header, LimeLayer._load_segments and LimeStacker.stack *)
(* over a byte source (the base layer).                                    *)
(***************************************************************************)
EXTENDS Integers, Sequences, FiniteSets, TLC

\* ------------------------------------------------------------------ bounds
\* Most segments (header plus payload) laid out in a source.
MaxSegs == 2
\* Largest start/end address a laid-out header declares.
MaxAddr == 1

\* ------------------------------------------------------- program constants
MAGIC == 1281969477
VERSION == 1
\* struct.Struct('<IIQQQ').size: Magic[4], Version[4], Start[8], End[8], Reserved[8]
header_size == 4 + 4 + 8 + 8 + 8

\* The kinds of LimeFormatException, by the message each raise site formats.
HeaderReadFailed == "Offset does not exist within the base layer"
BadMagic == "bad magic"
UnsupportedVersion == "unexpected version"
BadRange == "bad start/end"
EmptyContainer == "No LiME segments defined"
NoError == "no exception"

\* --------------------------------------------------------------- the codec
RECURSIVE FromLE(_)
\* struct.unpack of one little-endian unsigned field
FromLE(bytes) ==
  IF bytes = <<>> THEN 0 ELSE Head(bytes) + 256 * FromLE(Tail(bytes))

RECURSIVE ToLE(_, _)
\* struct.pack of one little-endian unsigned field of n bytes
ToLE(v, n) ==
  IF n = 0 THEN <<>> ELSE <<v % 256>> \o ToLE(v \div 256, n - 1)

\* _header_struct.unpack(header_data): (magic, version, start, end, reserved)
unpack(header_data) ==
  [magic    |-> FromLE(SubSeq(header_data, 1, 4)),
   version  |-> FromLE(SubSeq(header_data, 5, 8)),
   start    |-> FromLE(SubSeq(header_data, 9, 16)),
   end      |-> FromLE(SubSeq(header_data, 17, 24)),
   reserved |-> FromLE(SubSeq(header_data, 25, 32))]

\* One header record as the bytes the layout '<IIQQQ' gives it.
pack(magic, version, start, end) ==
  ToLE(magic, 4) \o ToLE(version, 4) \o ToLE(start, 8) \o ToLE(end, 8) \o ToLE(0, 8)

\* ---------------------------------------------------------- the base layer
\* base_layer.read(offset, length) raises InvalidAddressException unless the
\* whole span lies inside the data.
InvalidAddress(data, offset, length) ==
  offset < 0 \/ offset + length > Len(data)

read(data, offset, length) == SubSeq(data, offset + 1, offset + length)

\* base_layer.maximum_address for a source of these bytes: its extent, or its
\* last (zero-based) address.
MaximumAddresses(data) == {Len(data) - 1, Len(data)}

\* ------------------------------------------------------------ the sources
Zeros(n) == [i \in 1..n |-> 0]

\* The payload bytes a header's range declares (none for an inverted range).
PayloadLen(r) == IF r[2] >= r[1] THEN r[2] - r[1] + 1 ELSE 0

Ranges == (0..MaxAddr) \X (0..MaxAddr)
Layouts == UNION {[1..n -> Ranges] : n \in 0..MaxSegs}
Magics == {MAGIC, MAGIC + 1}
Versions == {VERSION, VERSION + 1}
\* Bytes dropped from (-1) or added to (+1) the end of the laid-out segments.
Cuts == {-1, 0, 1}
\* Sizes of the sources that hold no whole header.
ShortSizes == {0, 1, 27, 28, header_size - 1}

RECURSIVE Chain(_, _, _)
\* The segments of ranges rs back to back; the last header carries (m, v),
\* the ones before it the format's magic and version.
Chain(rs, m, v) ==
  IF rs = <<>> THEN <<>>
  ELSE IF Len(rs) = 1
       THEN pack(m, v, rs[1][1], rs[1][2]) \o Zeros(PayloadLen(rs[1]))
       ELSE pack(MAGIC, VERSION, rs[1][1], rs[1][2]) \o Zeros(PayloadLen(rs[1]))
              \o Chain(Tail(rs), m, v)

Resize(data, cut) ==
  IF cut < 0 THEN SubSeq(data, 1, Len(data) + cut) ELSE data \o Zeros(cut)

\* ------------------------------------------------------------------ state
VARIABLES
  layout,           \* how the source was laid out: [ranges, magic, version, cut]
  source,           \* the base layer's bytes
  maximum_address,  \* the base layer's maximum_address
  memory,           \* context.memory: the names of the registered layers
  config,           \* context.config: a set of <<key, value>>
  pre,              \* config, memory and source as the call in progress found them
  pc,               \* "idle", "loading", "done", "raised", "returned"
  call,             \* the entry point in progress: "none", "init", "stack"
  outcome,          \* what stack gave its caller: "", "None", "layer", "exception"
  error,            \* the LimeFormatException in flight
  offset,           \* _load_segments: offset
  maxaddr,          \* _load_segments: maxaddr
  segments,         \* _load_segments: segments
  _segments         \* self._segments: <<>> until assigned, then <<table>>

vars == <<layout, source, maximum_address, memory, config, pre, pc, call,
          outcome, error, offset, maxaddr, segments, _segments>>

layer_name == "base"

Snapshot == [config |-> config, memory |-> memory, source |-> source]

Init ==
  /\ \E rs \in Layouts, m \in Magics, v \in Versions, cut \in Cuts, short \in ShortSizes :
       IF rs = <<>>
       THEN /\ m = MAGIC /\ v = VERSION /\ cut = 0
            /\ layout = [ranges |-> rs, magic |-> m, version |-> v, cut |-> short]
            /\ source = Zeros(short)
       ELSE /\ short = 0
            /\ layout = [ranges |-> rs, magic |-> m, version |-> v, cut |-> cut]
            /\ source = Resize(Chain(rs, m, v), cut)
  /\ maximum_address \in MaximumAddresses(source)
  /\ memory = {layer_name}
  /\ config = {}
  /\ pre = [config |-> {}, memory |-> {layer_name}, source |-> source]
  /\ pc = "idle"
  /\ call = "none"
  /\ outcome = ""
  /\ error = NoError
  /\ offset = 0
  /\ maxaddr = 0
  /\ segments = <<>>
  /\ _segments = <<>>

\* ------------------------------------------------------------ the program
\* _check_header with the version compared before the magic.
_check_header_version_first(base_layer, off) ==
  IF InvalidAddress(base_layer, off, header_size)
  THEN [raised |-> HeaderReadFailed, start |-> 0, end |-> 0]
  ELSE LET h == unpack(read(base_layer, off, header_size)) IN
       IF h.version # VERSION
       THEN [raised |-> UnsupportedVersion, start |-> 0, end |-> 0]
       ELSE IF h.magic # MAGIC
            THEN [raised |-> BadMagic, start |-> 0, end |-> 0]
            ELSE [raised |-> NoError, start |-> h.start, end |-> h.end]

\* LimeLayer._check_header: the exception it raises, or the (start, end) it
\* returns.
_check_header(base_layer, off) ==
  IF InvalidAddress(base_layer, off, header_size)
  THEN [raised |-> HeaderReadFailed, start |-> 0, end |-> 0]
  ELSE LET h == unpack(read(base_layer, off, header_size)) IN
       IF h.magic # MAGIC
       THEN [raised |-> BadMagic, start |-> 0, end |-> 0]
       ELSE IF h.version # VERSION
            THEN [raised |-> UnsupportedVersion, start |-> 0, end |-> 0]
            ELSE [raised |-> NoError, start |-> h.start, end |-> h.end]

\* if start < maxaddr or end < start
bad_start_end(start, end, prev) == start < prev \/ end < start

\* The entry with the header's own offset for the payload's.
segment_at_header(start, off, segment_length) == <<start, off, segment_length>>

\* segments.append((start, offset + header_size, segment_length))
segment(start, off, segment_length) == <<start, off + header_size, segment_length>>

\* The advance with the header's size left out.
next_offset_payload_only(off, segment_length) == off + segment_length

\* offset = offset + header_size + segment_length
next_offset(off, segment_length) == off + header_size + segment_length

\* The loop condition with <= for <.
in_source_inclusive(off, base_maxaddr) == off <= base_maxaddr

\* while offset < base_maxaddr
in_source(off, base_maxaddr) == off < base_maxaddr

\* A raise that leaves the segments collected so far in self._segments.
Raise_keeping_partial(kind) ==
  /\ pc' = "raised"
  /\ error' = kind
  /\ outcome' = IF call = "stack" THEN "exception" ELSE outcome
  /\ _segments' = <<segments>>
  /\ UNCHANGED <<offset, maxaddr, segments>>

\* raise LimeFormatException(...) out of _load_segments
Raise(kind) ==
  /\ pc' = "raised"
  /\ error' = kind
  /\ outcome' = IF call = "stack" THEN "exception" ELSE outcome
  /\ UNCHANGED <<offset, maxaddr, segments, _segments>>

\* context.memory.free_layer_name(prefix)
free_layer_name(mem, prefix) ==
  IF prefix \notin mem THEN prefix ELSE CHOOSE n \in {prefix \o "1", prefix \o "2"} : n \notin mem

path_join(a, b) == <<a, b>>

\* context.config[key] = value
set_item(cfg, key, value) == {p \in cfg : p[1] # key} \cup {<<key, value>>}

\* LimeLayer.__init__ up to the loop of _load_segments
Construct ==
  /\ pc = "idle"
  /\ pc' = "loading"
  /\ call' = "init"
  /\ pre' = Snapshot
  /\ offset' = 0
  /\ maxaddr' = 0
  /\ segments' = <<>>
  /\ UNCHANGED <<layout, source, maximum_address, memory, config, outcome, error, _segments>>

\* LimeStacker.stack up to the loop of the LimeLayer it constructs
stack ==
  /\ pc = "idle"
  /\ call' = "stack"
  /\ pre' = Snapshot
  /\ IF _check_header(source, 0).raised # NoError
     THEN /\ pc' = "returned"
          /\ outcome' = "None"
          /\ UNCHANGED <<config, offset, maxaddr, segments>>
     ELSE LET new_name == free_layer_name(memory, "LimeLayer") IN
          /\ config' = set_item(config, path_join(new_name, "base_layer"), layer_name)
          /\ pc' = "loading"
          /\ offset' = 0
          /\ maxaddr' = 0
          /\ segments' = <<>>
          /\ UNCHANGED outcome
  /\ UNCHANGED <<layout, source, maximum_address, memory, error, _segments>>

\* One pass of the body of `while offset < base_maxaddr`
LoadStep ==
  /\ pc = "loading"
  /\ in_source(offset, maximum_address)
  /\ \E hdr \in {_check_header(source, offset)} :
       IF hdr.raised # NoError
       THEN Raise(hdr.raised)
       ELSE IF bad_start_end(hdr.start, hdr.end, maxaddr)
            THEN Raise(BadRange)
            ELSE LET segment_length == hdr.end - hdr.start + 1 IN
                 /\ segments' = Append(segments, segment(hdr.start, offset, segment_length))
                 /\ maxaddr' = hdr.end
                 /\ offset' = next_offset(offset, segment_length)
                 /\ UNCHANGED <<pc, error, outcome, _segments>>
  /\ UNCHANGED <<layout, source, maximum_address, memory, config, pre, call>>

\* The loop's exit: the empty check and the assignment of self._segments
LoadExit ==
  /\ pc = "loading"
  /\ ~in_source(offset, maximum_address)
  /\ IF Len(segments) = 0
     THEN Raise(EmptyContainer)
     ELSE /\ _segments' = <<segments>>
          /\ pc' = "done"
          /\ outcome' = IF call = "stack" THEN "layer" ELSE outcome
          /\ UNCHANGED <<error, offset, maxaddr, segments>>
  /\ UNCHANGED <<layout, source, maximum_address, memory, config, pre, call>>

\* The caller takes the outcome; the next call starts on the same context.
Reset ==
  /\ pc \in {"done", "raised", "returned"}
  /\ pc' = "idle"
  /\ call' = "none"
  /\ outcome' = ""
  /\ error' = NoError
  /\ offset' = 0
  /\ maxaddr' = 0
  /\ segments' = <<>>
  /\ _segments' = <<>>
  /\ pre' = Snapshot
  /\ UNCHANGED <<layout, source, maximum_address, memory, config>>

Next == Construct \/ stack \/ LoadStep \/ LoadExit \/ Reset

Spec == Init /\ [][Next]_vars

\* LimeLayer(...) alone: construction, and the load run to its end (the
\* interpreter takes the loop's next step whenever there is one).
LoadNext == Construct \/ LoadStep \/ LoadExit

LoadSpec == Init /\ [][LoadNext]_vars /\ WF_vars(LoadStep \/ LoadExit)

\* ------------------------------------------------- what the claims speak of
Terminal == pc \in {"done", "raised", "returned"}

\* A segment table entry is (mapped_start, source_offset, length).
SegStart(seg) == seg[1]
SegOffset(seg) == seg[2]
SegLength(seg) == seg[3]
SegEnd(seg) == seg[1] + seg[3] - 1

\* One field of the header that starts at byte off of the source.
Field(off, pos, width) == FromLE(SubSeq(source, off + pos + 1, off + pos + width))
Readable(off) == off + header_size <= Len(source)
MagicAt(off) == Field(off, 0, 4)
VersionAt(off) == Field(off, 4, 4)
StartAt(off) == Field(off, 8, 8)
EndAt(off) == Field(off, 16, 8)

RECURSIVE HeaderOffset(_, _)
\* Where the i-th header of a correctly chained layout lies.
HeaderOffset(rs, i) ==
  IF i = 1 THEN 0
  ELSE HeaderOffset(rs, i - 1) + header_size + (rs[i - 1][2] - rs[i - 1][1] + 1)

\* N >= 1 segments, each header valid, ranges ascending, chained, nothing after
\* the last payload.
WellFormed ==
  /\ Len(layout.ranges) >= 1
  /\ layout.magic = MAGIC
  /\ layout.version = VERSION
  /\ layout.cut = 0
  /\ \A i \in 1..Len(layout.ranges) : layout.ranges[i][2] >= layout.ranges[i][1]
  /\ \A i \in 1..(Len(layout.ranges) - 1) : layout.ranges[i + 1][1] > layout.ranges[i][2]

\* The table of a well-formed layout, with each payload h bytes after its header's
\* first byte.
TableAt(h) ==
  [i \in 1..Len(layout.ranges) |->
     <<layout.ranges[i][1],
       HeaderOffset(layout.ranges, i) + h,
       layout.ranges[i][2] - layout.ranges[i][1] + 1>>]

\* -------------------------------------------------------------------- C1
\* C1 as stated: on a source of N >= 1 well-formed segments the load succeeds
\* and entry i of the table is (start_i, offset of header i + 28,
\* end_i - start_i + 1); the first entry has source offset 28.
C1_PayloadAt28 ==
  (WellFormed /\ call # "none") =>
     /\ pc \in {"loading", "done"}
     /\ pc = "done" => /\ _segments = <<TableAt(28)>>
                       /\ SegOffset(_segments[1][1]) = 28

\* C1 amended: on a source of N >= 1 well-formed segments, each header 32 bytes
\* and header i+1 placed 32 + length_i bytes after header i, _load_segments
\* raises nothing, and when it is done the table holds exactly the N entries
\* (start_i, offset of header i + 32, end_i - start_i + 1) in input order; the
\* first entry has source offset 32.
C1_WellFormedIndexed ==
  (WellFormed /\ call # "none") =>
     /\ pc \in {"loading", "done"}
     /\ pc = "done" => /\ _segments = <<TableAt(32)>>
                       /\ SegOffset(_segments[1][1]) = 32

C1_Witness ==
  /\ WellFormed
  /\ Len(layout.ranges) = 2
  /\ call = "init"
  /\ pc = "done"
  /\ Len(_segments[1]) = 2

\* -------------------------------------------------------------------- C2
\* C2: a header whose start is less than or equal to the previous header's end
\* is never accepted: no two consecutive collected segments have the second
\* start at or below the first's inclusive end (the load fails with the
\* bad-range error instead).
C2_TouchingRejected ==
  \A i \in 1..(Len(segments) - 1) : SegStart(segments[i + 1]) > SegEnd(segments[i])

\* -------------------------------------------------------------------- C3
\* C3: after a successful load the table is non-empty, ascending by
\* mapped_start, and each later segment starts strictly above the earlier
\* segment's inclusive end.
C3_TableDisjoint ==
  pc = "done" =>
     LET table == _segments[1] IN
     /\ Len(table) >= 1
     /\ \A i \in 1..(Len(table) - 1) :
          /\ SegStart(table[i]) <= SegStart(table[i + 1])
          /\ SegEnd(table[i]) < SegStart(table[i + 1])

\* -------------------------------------------------------------------- C4
\* C4: stack never lets a format error reach its caller: it ends with a layer
\* or with None.
C4_StackNeverRaises ==
  call = "stack" => (pc # "raised" /\ outcome # "exception")

\* -------------------------------------------------------------------- C5
\* C5 as stated: a source shorter than one header makes _load_segments fail
\* with the header-read-failed error, and makes stack return None.
C5_ShortIsReadFailure ==
  Len(source) < header_size =>
     /\ (call = "init" /\ Terminal) => (pc = "raised" /\ error = HeaderReadFailed)
     /\ (call = "stack") => (pc = "returned" /\ outcome = "None")

\* C5 amended: a source shorter than one header never yields a table:
\* _load_segments fails with the header-read-failed error when the loop is
\* entered (0 < maximum_address) and with the empty-container error when it is
\* not, which is always so for a source of length 0; stack returns None.
C5_ShortFails ==
  Len(source) < header_size =>
     /\ (call = "init" /\ Terminal) =>
           /\ pc = "raised"
           /\ _segments = <<>>
           /\ error = IF 0 < maximum_address THEN HeaderReadFailed ELSE EmptyContainer
           /\ Len(source) = 0 => error = EmptyContainer
     /\ (call = "stack") => (pc = "returned" /\ outcome = "None")

C5_Witness ==
  /\ Len(source) = 0
  /\ call = "init"
  /\ pc = "raised"
  /\ error = EmptyContainer

\* -------------------------------------------------------------------- C6
\* C6: a call of stack that returns no layer (None, or a failure) leaves the
\* context configuration, the registered layers and the source bytes as it
\* found them.
C6_StackLeavesNoTrace ==
  (call = "stack" /\ pc \in {"returned", "raised"}) => Snapshot = pre

\* -------------------------------------------------------------------- C7
\* C7: self._segments stays unassigned while the scan runs and after any
\* failure, however many segments were collected; it is assigned only at the
\* end of a scan that reached the end of the source, to the collected list.
C7_AllOrNothing ==
  /\ pc \in {"loading", "raised", "returned"} => _segments = <<>>
  /\ pc = "done" => /\ _segments = <<segments>>
                    /\ offset >= maximum_address

C7_Witness ==
  /\ pc = "raised"
  /\ error \in {BadMagic, UnsupportedVersion, BadRange, HeaderReadFailed}
  /\ Len(segments) >= 1

\* -------------------------------------------------------------------- C8
\* C8: the header at the failing offset decides the error by its first failing
\* check in the order read, magic, version, range; and every collected segment's
\* header passed all four.
C8_FirstFailingCheck ==
  /\ (pc = "raised" /\ error # EmptyContainer) =>
        /\ error = HeaderReadFailed <=> ~Readable(offset)
        /\ Readable(offset) =>
             /\ error = BadMagic <=> MagicAt(offset) # MAGIC
             /\ MagicAt(offset) = MAGIC =>
                  /\ error = UnsupportedVersion <=> VersionAt(offset) # VERSION
                  /\ VersionAt(offset) = VERSION =>
                       /\ error = BadRange
                       /\ \/ EndAt(offset) < StartAt(offset)
                          \/ StartAt(offset) < maxaddr
  /\ \A i \in 1..Len(segments) :
        LET at == SegOffset(segments[i]) - header_size
            prev == IF i = 1 THEN 0 ELSE EndAt(SegOffset(segments[i - 1]) - header_size)
        IN /\ Readable(at)
           /\ MagicAt(at) = MAGIC
           /\ VersionAt(at) = VERSION
           /\ EndAt(at) >= StartAt(at)
           /\ StartAt(at) >= prev

\* A header with a wrong magic and a wrong version fails on the magic.
C8_Witness ==
  /\ pc = "raised"
  /\ error = BadMagic
  /\ Readable(offset)
  /\ VersionAt(offset) # VERSION
  /\ Len(segments) >= 1

\* -------------------------------------------------------------------- C9
\* C9: after a successful load every segment's payload lies inside the source.
C9_PayloadInsideSource ==
  pc = "done" =>
     \A i \in 1..Len(_segments[1]) :
        SegOffset(_segments[1][i]) + SegLength(_segments[1][i]) <= Len(source)

\* ------------------------------------------------------------------- C10
\* C10: within a load the offset never moves backwards, every pass that does
\* not fail advances it by at least 29, and every load that starts ends, with a
\* table or with a format error.
C10_Terminates ==
  /\ [][pc = "loading" =>
          /\ offset' >= offset
          /\ pc' = "loading" => (offset < maximum_address /\ offset' >= offset + 29)]_vars
  /\ (pc = "loading") ~> (pc \in {"done", "raised"})

C10_Witness ==
  /\ pc = "loading"
  /\ Len(segments) = 2
  /\ offset >= 2 * 29

====
